---- MODULE Spec2Model ----
(***************************************************************************)
(* Model of the halo2 gadget examples of zk-fhe-playground                 *)
(* (src/examples/*.rs).  Each example is one gadget function               *)
(*     fn gadget(ctx, input, make_public)                                  *)
(* that asserts the shape of its input, loads the input into the build     *)
(* context as witness cells, emits gates, flags cells public and finally   *)
(* compares the result with an out-of-circuit reference.                   *)
(*                                                                         *)
(* Representation.                                                         *)
(*  - ctx is the sequence of cells the gadget has allocated so far; a      *)
(*    cell holds one field element.  An AssignedValue is the (1-based)     *)
(*    position of its cell in ctx.  Every gate call allocates one output   *)
(*    cell (the library's auxiliary cells are left out).                   *)
(*  - make_public is the accumulator of AssignedValues handed in by the    *)
(*    driver.                                                              *)
(*  - A panic (failed assert!, index out of bounds, arithmetic overflow)   *)
(*    moves pc to "panicked"; nothing runs after it.                       *)
(*  - Rust vectors are 0-based; At(s, i) reads index i of a vector.        *)
(*                                                                         *)
(* Widths.  TLC integers have 32 bits, so the 64-bit machine word and the  *)
(* 254-bit scalar field cannot be written down.  They are scaled to        *)
(* U32_BITS = 13, U64_BITS = 14 and FIELD_MODULUS = 1000000007 (a prime),  *)
(* keeping the order                                                       *)
(*     2^8 (u8 / i8)  <  2^U32_BITS  <  2^U64_BITS,   3 * 2^(2*U64_BITS) < p *)
(* of the real widths 2^8 < 2^32 < 2^64 and 3 * 2^128 < p: a sum of three  *)
(* products of sign-extended words does not wrap around the field.         *)
(* The environment variable LOOKUP_BITS is taken to be set.                *)
(***************************************************************************)
EXTENDS Integers, Sequences, FiniteSets, TLC

VARIABLES gadget, pc, input, ctx, make_public, public_at_call, locals

vars == <<gadget, pc, input, ctx, make_public, public_at_call, locals>>

(***************************************************************************)
(* Program constants                                                       *)
(***************************************************************************)
\* const N: usize = 3  (poly_mul, polyadd, polyscalarmul, poly_reduce, chi_*)
N == 3
\* const Q: u64 = 2u64.pow(8)
Q == 256
\* const B: u64 = 30
B == 30
\* const MODULUS: usize = 11
MODULUS == 11
\* const N: usize = 4 of poly_divide_by_cyclo.rs
CYCLO_N == 4
\* const M: usize = 2
M == 2

\* the scalar field F (scaled, see above)
FIELD_MODULUS == 1000000007
\* the width of u64 / usize (scaled, see above)
U64_BITS == 14
\* the width of u32 (scaled, see above)
U32_BITS == 13

(***************************************************************************)
(* Bounds of the model                                                     *)
(***************************************************************************)
\* u8 coefficients are drawn from 0..MaxCoeff and the largest u8,
\* i8 coefficients from -MaxCoeff..MaxCoeff
MaxCoeff == 1
\* dividends of div_euclid have at most MaxDivLen coefficients
MaxDivLen == 3
\* lengths of input vectors range over declared length -/+ MaxLenSlack, and 0
MaxLenSlack == 1

(***************************************************************************)
(* Helpers                                                                 *)
(***************************************************************************)
At(s, i) == s[i + 1]

InBounds(s, i) == i >= 0 /\ i < Len(s)

RECURSIVE Pow2(_)
Pow2(n) == IF n = 0 THEN 1 ELSE 2 * Pow2(n - 1)

U64_MOD == Pow2(U64_BITS)

Max(x, y) == IF x >= y THEN x ELSE y
Min(x, y) == IF x <= y THEN x ELSE y

RECURSIVE SumTo(_, _)
\* f[1] + ... + f[n] over the integers
SumTo(f, n) == IF n = 0 THEN 0 ELSE SumTo(f, n - 1) + f[n]

(***************************************************************************)
(* The field F                                                             *)
(***************************************************************************)
FAdd(x, y) == (x + y) % FIELD_MODULUS

FSub(x, y) == (x - y) % FIELD_MODULUS

RECURSIVE MulMod(_, _)
\* x * y mod p without leaving 32 bits (double and add)
MulMod(x, y) ==
    IF y = 0 THEN 0
    ELSE IF x < 32768 /\ y < 32768 THEN (x * y) % FIELD_MODULUS
    ELSE LET h == MulMod(x, y \div 2)
             d == (h + h) % FIELD_MODULUS
         IN  IF y % 2 = 1 THEN (d + x) % FIELD_MODULUS ELSE d

FMul(x, y) == MulMod(x, y)

\* F::from(x: u64)
FFromU64(x) == x % FIELD_MODULUS

\* `x as u64` for x: u8 (zero extension)
U8AsU64(x) == x

\* input.a.iter().map(|x| F::from(x as u64)) for a Vec<u8>
U8ToField(x) == FFromU64(U8AsU64(x))

\* vec.len() - 1 in usize: wraps in a release build; a debug build panics on
\* the subtraction itself, which the asserts that use it turn into the same
\* outcome (USIZE_MAX differs from every declared degree).
LenMinus1(s) == (Len(s) - 1) % U64_MOD

(***************************************************************************)
(* The build context                                                       *)
(***************************************************************************)
\* the AssignedValues of `vals` loaded one after the other into context c
LoadedCells(c, vals) == [k \in 1..Len(vals) |-> Len(c) + k]

\* prod.value()
Value(c, cell) == c[cell]

Values(c, cells) == [k \in 1..Len(cells) |-> c[cells[k]]]

(***************************************************************************)
(* Inputs                                                                  *)
(***************************************************************************)
U8Vals == (0..MaxCoeff) \cup {255}

\* all vectors of length n over S
Vectors(S, n) == [1..n -> S]

\* vectors of a wrong length for a declared length n: the empty vector and
\* vectors of ones at distance <= MaxLenSlack of n
WrongLengths(n) == ({0} \cup ((n - MaxLenSlack)..(n + MaxLenSlack))) \ {n}

MisshapenVectors(n) == { [k \in 1..l |-> 1] : l \in { x \in WrongLengths(n) : x >= 0 } }

\* vectors of length n in which one position takes any value of `vals` and
\* every other position holds one and the same value of `fills`
OneFreeVectors(vals, fills, n) ==
    { [k \in 1..n |-> IF k = j THEN v ELSE f] : j \in 1..n, v \in vals, f \in fills }

\* the contexts a driver may call a gadget with: a fresh one, or one in
\* which an earlier gadget left a cell that it flagged public
CallContexts == { <<<<>>, <<>>>>, <<<<7>>, <<1>>>> }

(***************************************************************************)
(* Reference arithmetic (arkworks DensePolynomial) and the string bridge   *)
(***************************************************************************)
RECURSIVE FSumTo(_, _)
\* f[1] + ... + f[n] in the field
FSumTo(f, n) == IF n = 0 THEN 0 ELSE FAdd(FSumTo(f, n - 1), f[n])

RECURSIVE TrimTrailingZeros(_)
\* DensePolynomial::from_coefficients_vec drops the zero leading (last) terms
TrimTrailingZeros(v) ==
    IF Len(v) > 0 /\ v[Len(v)] = 0 THEN TrimTrailingZeros(SubSeq(v, 1, Len(v) - 1))
    ELSE v

FromCoefficientsVec(v) == TrimTrailingZeros([k \in 1..Len(v) |-> FFromU64(v[k])])

\* &a * &b
RefMul(a, b) ==
    IF Len(a) = 0 \/ Len(b) = 0 THEN <<>>
    ELSE [k \in 1..(Len(a) + Len(b) - 1) |->
            FSumTo([i \in 1..Len(a) |->
                      IF k + 1 - i >= 1 /\ k + 1 - i <= Len(b)
                      THEN FMul(a[i], b[k + 1 - i]) ELSE 0], Len(a))]

\* &a + &b
RefAdd(a, b) ==
    TrimTrailingZeros([k \in 1..Max(Len(a), Len(b)) |->
        FAdd(IF k <= Len(a) THEN a[k] ELSE 0, IF k <= Len(b) THEN b[k] ELSE 0)])

\* &a * k
RefScale(a, k) ==
    IF Len(a) = 0 \/ k = 0 THEN <<>> ELSE [i \in 1..Len(a) |-> FMul(a[i], k)]

RECURSIVE ToDecimal(_)
\* x.into_bigint().to_string(): the decimal digits, most significant first
ToDecimal(x) == IF x < 10 THEN <<x>> ELSE Append(ToDecimal(x \div 10), x % 10)

RECURSIVE ParseDecimal(_, _)
ParseDecimal(digits, n) ==
    IF n = 0 THEN 0 ELSE FAdd(FMul(ParseDecimal(digits, n - 1), 10), digits[n])

\* F::from_str_vartime(x).unwrap()
FromStrVartime(digits) == ParseDecimal(digits, Len(digits))

\* c.coeffs -> strings -> F
ToF(c) == [k \in 1..Len(c) |-> FromStrVartime(ToDecimal(c[k]))]

\* for (x, c) in cells.iter().zip(c_f) { assert_eq!(x.value(), &c) }
ZipAgrees(c, cells, ref) ==
    \A k \in 1..Min(Len(cells), Len(ref)) : Value(c, cells[k]) = ref[k]

(***************************************************************************)
(* Convolution (poly_mul.rs lines 72-98; the same loop, over M, is in      *)
(* poly_divide_by_cyclo.rs lines 104-129)                                  *)
(***************************************************************************)
\* the a_idx range of output index i:  0..=i  if i < n + 1,  (i - n)..=n  else
WindowLo_SkipsFirst(i, n) == IF i < n + 1 THEN 0 ELSE i - n + 1

WindowLo(i, n) == IF i < n + 1 THEN 0 ELSE i - n

WindowHi(i, n) == IF i < n + 1 THEN i ELSE n

\* the products pushed to coefficient_accumaltor for output index i
ConvProducts(av, bv, i, n) ==
    [k \in 1..(WindowHi(i, n) - WindowLo(i, n) + 1) |->
        FMul(At(av, WindowLo(i, n) + k - 1), At(bv, i - (WindowLo(i, n) + k - 1)))]

\* the cells one iteration of the outer loop allocates: the products, the
\* zero the fold starts from, and one partial sum per product
ConvBlock(av, bv, i, n) ==
    LET ps == ConvProducts(av, bv, i, n)
    IN  ps \o <<0>> \o [k \in 1..Len(ps) |-> FSumTo(ps, k)]

RECURSIVE Convolve(_, _, _, _, _)
\* context and prod_val after cnt iterations of the outer loop
Convolve(c, av, bv, n, cnt) ==
    IF cnt = 0 THEN [ctx |-> c, prod_val |-> <<>>]
    ELSE LET prev == Convolve(c, av, bv, n, cnt - 1)
             nctx == prev.ctx \o ConvBlock(av, bv, cnt - 1, n)
         IN  [ctx |-> nctx, prod_val |-> Append(prev.prod_val, Len(nctx))]

(***************************************************************************)
(* poly_mul                                                                *)
(***************************************************************************)
MulInputs ==
    { [a |-> a, b |-> b] : a \in Vectors(U8Vals, N + 1),
                           b \in OneFreeVectors(U8Vals, U8Vals, N + 1) }
    \cup { [a |-> a, b |-> b] : a \in MisshapenVectors(N + 1),
                                b \in MisshapenVectors(N + 1) \cup {[k \in 1..(N + 1) |-> 1]} }
    \cup { [a |-> [k \in 1..(N + 1) |-> 1], b |-> b] : b \in MisshapenVectors(N + 1) }

InitGadget(g, inputs) ==
    /\ gadget = g
    /\ pc = "start"
    /\ input \in inputs
    /\ \E cc \in CallContexts : ctx = cc[1] /\ make_public = cc[2] /\ public_at_call = cc[2]
    /\ locals = <<>>

InitMul == InitGadget("poly_mul", MulInputs)

\* assert_eq!(input.a.len() - 1, input.b.len() - 1); assert_eq!(input.a.len() - 1, N);
MulShapeOk(in) == LenMinus1(in.a) = LenMinus1(in.b) /\ LenMinus1(in.a) = N

MulAssert ==
    /\ gadget = "poly_mul" /\ pc = "start"
    /\ pc' = IF MulShapeOk(input) THEN "checked" ELSE "panicked"
    /\ UNCHANGED <<gadget, input, ctx, make_public, public_at_call, locals>>

\* a_assigned, b_assigned
MulAssign ==
    /\ gadget = "poly_mul" /\ pc = "checked"
    /\ LET av == [k \in 1..Len(input.a) |-> U8ToField(input.a[k])]
           bv == [k \in 1..Len(input.b) |-> U8ToField(input.b[k])]
           c1 == ctx \o av
       IN  /\ ctx' = c1 \o bv
           /\ locals' = [a_assigned |-> LoadedCells(ctx, av),
                         b_assigned |-> LoadedCells(c1, bv)]
    /\ pc' = "assigned"
    /\ UNCHANGED <<gadget, input, make_public, public_at_call>>

\* for i in 0..(2 * N + 1) { ... prod_val.push(prod_value) }
MulConvolve ==
    /\ gadget = "poly_mul" /\ pc = "assigned"
    /\ LET r == Convolve(ctx, Values(ctx, locals.a_assigned),
                         Values(ctx, locals.b_assigned), N, 2 * N + 1)
       IN  /\ ctx' = r.ctx
           /\ locals' = [a_assigned |-> locals.a_assigned,
                         b_assigned |-> locals.b_assigned,
                         prod_val |-> r.prod_val]
    /\ pc' = "computed"
    /\ UNCHANGED <<gadget, input, make_public, public_at_call>>

MulPublicCells_Reversed(prod_val) == [k \in 1..(2 * N + 1) |-> At(prod_val, 2 * N + 1 - k)]

\* for i in 0..(2 * N + 1) { make_public.push(prod_val[i]) }
MulPublicCells(prod_val) == [k \in 1..(2 * N + 1) |-> At(prod_val, k - 1)]

MulPublish ==
    /\ gadget = "poly_mul" /\ pc = "computed"
    /\ make_public' = make_public \o MulPublicCells(locals.prod_val)
    /\ pc' = "published"
    /\ UNCHANGED <<gadget, input, ctx, public_at_call, locals>>

\* the TEST block: c = a * b with arkworks, compared with prod_val
MulCrossCheck ==
    /\ gadget = "poly_mul" /\ pc = "published"
    /\ LET c_f == ToF(RefMul(FromCoefficientsVec(input.a), FromCoefficientsVec(input.b)))
       IN  pc' = IF ZipAgrees(ctx, locals.prod_val, c_f) THEN "done" ELSE "panicked"
    /\ UNCHANGED <<gadget, input, ctx, make_public, public_at_call, locals>>

NextMul == MulAssert \/ MulAssign \/ MulConvolve \/ MulPublish \/ MulCrossCheck

SpecMul == InitMul /\ [][NextMul]_vars

(***************************************************************************)
(* poly_add                                                                *)
(***************************************************************************)
AddInputs == MulInputs

InitAdd == InitGadget("poly_add", AddInputs)

\* assert_eq!(input.a.len() - 1, input.b.len() - 1); assert_eq!(input.a.len() - 1, N);
AddShapeOk(in) == LenMinus1(in.a) = LenMinus1(in.b) /\ LenMinus1(in.a) = N

AddAssert ==
    /\ gadget = "poly_add" /\ pc = "start"
    /\ pc' = IF AddShapeOk(input) THEN "checked" ELSE "panicked"
    /\ UNCHANGED <<gadget, input, ctx, make_public, public_at_call, locals>>

\* a_assigned, b_assigned; assert_eq!(a_assigned.len(), b_assigned.len())
AddAssign ==
    /\ gadget = "poly_add" /\ pc = "checked"
    /\ LET av == [k \in 1..Len(input.a) |-> U8ToField(input.a[k])]
           bv == [k \in 1..Len(input.b) |-> U8ToField(input.b[k])]
           c1 == ctx \o av
       IN  /\ ctx' = c1 \o bv
           /\ locals' = [a_assigned |-> LoadedCells(ctx, av),
                         b_assigned |-> LoadedCells(c1, bv)]
           /\ pc' = IF Len(av) = Len(bv) THEN "assigned" ELSE "panicked"
    /\ UNCHANGED <<gadget, input, make_public, public_at_call>>

AddWindow_TakesN(la, lb) == Min(Min(la, lb), N)

\* the number of pairs a_assigned.iter().zip(b_assigned.iter()).take(2 * N - 1) yields
AddWindow(la, lb) == Min(Min(la, lb), 2 * N - 1)

\* sum_assigned
AddSum ==
    /\ gadget = "poly_add" /\ pc = "assigned"
    /\ LET av == Values(ctx, locals.a_assigned)
           bv == Values(ctx, locals.b_assigned)
           sv == [k \in 1..AddWindow(Len(av), Len(bv)) |-> FAdd(av[k], bv[k])]
       IN  /\ ctx' = ctx \o sv
           /\ locals' = [a_assigned |-> locals.a_assigned,
                         b_assigned |-> locals.b_assigned,
                         sum_assigned |-> LoadedCells(ctx, sv)]
    /\ pc' = "computed"
    /\ UNCHANGED <<gadget, input, make_public, public_at_call>>

\* for i in 0..(N + 1) { make_public.push(sum_assigned[i]) }: the index panics
\* at the first i that sum_assigned does not have
AddPublish ==
    /\ gadget = "poly_add" /\ pc = "computed"
    /\ LET cnt == Min(N + 1, Len(locals.sum_assigned))
       IN  /\ make_public' = make_public \o SubSeq(locals.sum_assigned, 1, cnt)
           /\ pc' = IF cnt = N + 1 THEN "published" ELSE "panicked"
    /\ UNCHANGED <<gadget, input, ctx, public_at_call, locals>>

\* the TEST block: c = a + b with arkworks, compared with sum_assigned
AddCrossCheck ==
    /\ gadget = "poly_add" /\ pc = "published"
    /\ LET c_f == ToF(RefAdd(FromCoefficientsVec(input.a), FromCoefficientsVec(input.b)))
       IN  pc' = IF ZipAgrees(ctx, locals.sum_assigned, c_f) THEN "done" ELSE "panicked"
    /\ UNCHANGED <<gadget, input, ctx, make_public, public_at_call, locals>>

NextAdd == AddAssert \/ AddAssign \/ AddSum \/ AddPublish \/ AddCrossCheck

SpecAdd == InitAdd /\ [][NextAdd]_vars

(***************************************************************************)
(* poly_scalar_mul                                                         *)
(***************************************************************************)
ScalarInputs ==
    { [a |-> a, k |-> k] : a \in Vectors(U8Vals, N + 1) \cup MisshapenVectors(N + 1),
                           k \in U8Vals }

InitScalar == InitGadget("poly_scalar_mul", ScalarInputs)

\* a_assigned, k_assigned (no assertion on input.a.len() precedes them)
ScalarAssign ==
    /\ gadget = "poly_scalar_mul" /\ pc = "start"
    /\ LET av == [k \in 1..Len(input.a) |-> U8ToField(input.a[k])]
           c1 == ctx \o av
       IN  /\ ctx' = Append(c1, U8ToField(input.k))
           /\ locals' = [a_assigned |-> LoadedCells(ctx, av),
                         k_assigned |-> Len(c1) + 1]
    /\ pc' = "assigned"
    /\ UNCHANGED <<gadget, input, make_public, public_at_call>>

\* the number of iterations of `for i in 0..(N - 1)`
ScalarLoopCount == N - 1

\* for i in 0..(N - 1) { scalar_prod = a_assigned[i] * k; push; make_public.push }
\* a_assigned[i] panics at the first i that a_assigned does not have
ScalarMulLoop ==
    /\ gadget = "poly_scalar_mul" /\ pc = "assigned"
    /\ LET av  == Values(ctx, locals.a_assigned)
           kv  == Value(ctx, locals.k_assigned)
           cnt == Min(ScalarLoopCount, Len(av))
           pv  == [i \in 1..cnt |-> FMul(av[i], kv)]
       IN  /\ ctx' = ctx \o pv
           /\ locals' = [a_assigned |-> locals.a_assigned,
                         k_assigned |-> locals.k_assigned,
                         scalar_prod_assigned |-> LoadedCells(ctx, pv)]
           /\ make_public' = make_public \o LoadedCells(ctx, pv)
           /\ pc' = IF cnt = ScalarLoopCount THEN "published" ELSE "panicked"
    /\ UNCHANGED <<gadget, input, public_at_call>>

\* the TEST block: c = a * k with arkworks, compared with scalar_prod_assigned
ScalarCrossCheck ==
    /\ gadget = "poly_scalar_mul" /\ pc = "published"
    /\ LET c_f == ToF(RefScale(FromCoefficientsVec(input.a), FFromU64(U8AsU64(input.k))))
       IN  pc' = IF ZipAgrees(ctx, locals.scalar_prod_assigned, c_f) THEN "done" ELSE "panicked"
    /\ UNCHANGED <<gadget, input, ctx, make_public, public_at_call, locals>>

NextScalar == ScalarAssign \/ ScalarMulLoop \/ ScalarCrossCheck

SpecScalar == InitScalar /\ [][NextScalar]_vars

(***************************************************************************)
(* reduce_poly                                                             *)
(***************************************************************************)
\* range.div_mod(ctx, x, MODULUS, 16): (quotient, remainder) of the value of x
DivMod(x, m) == <<x \div m, x % m>>

\* the remainders the caller is expected to claim for poly
TrueRemainders(poly) == [k \in 1..Len(poly) |-> poly[k] % MODULUS]

\* a claimed output wrong at (1-based) position j only
WrongAt(out, j) == [k \in 1..Len(out) |-> IF k = j THEN (out[k] + 1) % MODULUS ELSE out[k]]

ReduceVals == U8Vals \cup {17}

\* claimed outputs: the true one, one wrong at a single position, one that
\* lacks the last entry, one with an entry too many
ClaimedOuts(poly) ==
    LET t == TrueRemainders(poly)
    IN  {t} \cup { WrongAt(t, j) : j \in 1..Len(t) }
            \cup { SubSeq(t, 1, Len(t) - l) : l \in 1..Min(MaxLenSlack, Len(t)) }
            \cup { Append(t, 0) }

ReduceInputs ==
    UNION { { [poly |-> p, out |-> o] : o \in ClaimedOuts(p) } :
            p \in Vectors(ReduceVals, N + 1) \cup MisshapenVectors(N + 1) }

InitReduce == InitGadget("reduce_poly", ReduceInputs)

\* assert_eq!(input.poly.len() - 1, N)
ReduceShapeOk(in) == LenMinus1(in.poly) = N

ReduceAssert ==
    /\ gadget = "reduce_poly" /\ pc = "start"
    /\ pc' = IF ReduceShapeOk(input) THEN "checked" ELSE "panicked"
    /\ UNCHANGED <<gadget, input, ctx, make_public, public_at_call, locals>>

\* in_assigned
ReduceAssign ==
    /\ gadget = "reduce_poly" /\ pc = "checked"
    /\ LET av == [k \in 1..Len(input.poly) |-> U8ToField(input.poly[k])]
       IN  /\ ctx' = ctx \o av
           /\ locals' = [in_assigned |-> LoadedCells(ctx, av)]
    /\ pc' = "assigned"
    /\ UNCHANGED <<gadget, input, make_public, public_at_call>>

ReduceWindow_TakesN(len) == Min(len, N)

\* the number of cells in_assigned.iter().take(2 * N - 1) yields
ReduceWindow(len) == Min(len, 2 * N - 1)

\* rem_assigned: each div_mod allocates the quotient and then the remainder
ReduceDivMod ==
    /\ gadget = "reduce_poly" /\ pc = "assigned"
    /\ LET av  == Values(ctx, locals.in_assigned)
           cnt == ReduceWindow(Len(av))
           qr  == [k \in 1..(2 * cnt) |-> DivMod(av[(k + 1) \div 2], MODULUS)[2 - (k % 2)]]
       IN  /\ ctx' = ctx \o qr
           /\ locals' = [in_assigned |-> locals.in_assigned,
                         rem_assigned |-> [k \in 1..cnt |-> Len(ctx) + 2 * k]]
    /\ pc' = "computed"
    /\ UNCHANGED <<gadget, input, make_public, public_at_call>>

\* for i in 0..(N + 1) { make_public.push(rem_assigned[i]) }
ReducePublish ==
    /\ gadget = "reduce_poly" /\ pc = "computed"
    /\ LET cnt == Min(N + 1, Len(locals.rem_assigned))
       IN  /\ make_public' = make_public \o SubSeq(locals.rem_assigned, 1, cnt)
           /\ pc' = IF cnt = N + 1 THEN "published" ELSE "panicked"
    /\ UNCHANGED <<gadget, input, ctx, public_at_call, locals>>

\* the number of iterations of `for i in 0..N` that compare with input.out
ReduceCheckCount == N

\* for i in 0..N { assert_eq!(rem_assigned[i].value(), F::from(out_expected[i] as u64)) }
\* out_expected[i] panics when input.out has no index i
ReduceCheckOut ==
    /\ gadget = "reduce_poly" /\ pc = "published"
    /\ pc' = IF \A i \in 0..(ReduceCheckCount - 1) :
                    /\ InBounds(locals.rem_assigned, i)
                    /\ InBounds(input.out, i)
                    /\ Value(ctx, At(locals.rem_assigned, i)) = U8ToField(At(input.out, i))
             THEN "done" ELSE "panicked"
    /\ UNCHANGED <<gadget, input, ctx, make_public, public_at_call, locals>>

NextReduce == ReduceAssert \/ ReduceAssign \/ ReduceDivMod \/ ReducePublish \/ ReduceCheckOut

SpecReduce == InitReduce /\ [][NextReduce]_vars

(***************************************************************************)
(* Gates and the range chip (halo2-lib, by their contracts)                *)
(***************************************************************************)
\* range.is_less_than_safe(ctx, a, b): the boolean a < b
IsLessThanSafe(a, b) == IF a < b THEN 1 ELSE 0

\* gate.not(ctx, a)
GateNot(a) == FSub(1, a)

\* gate.and(ctx, a, b)
GateAnd(a, b) == FMul(a, b)

\* gate.or(ctx, a, b)
GateOr(a, b) == FSub(FAdd(a, b), FMul(a, b))

\* gate.is_equal(ctx, a, b): a boolean cell; it constrains nothing
GateIsEqual(a, b) == IF a = b THEN 1 ELSE 0

\* gate.is_zero(ctx, a): a boolean cell; it constrains nothing
GateIsZero(a) == IF a = 0 THEN 1 ELSE 0

\* u64 coefficients: everything up to a little above Q, and the largest u64
U64Vals == (0..(Q + MaxCoeff)) \cup {U64_MOD - 1}

(***************************************************************************)
(* check_poly_from_distribution (chi_error)                                *)
(***************************************************************************)
ChiErrInputs ==
    [a : OneFreeVectors(U64Vals, {0, B, Q - 1}, N + 1) \cup MisshapenVectors(N + 1)]

InitChiErr == InitGadget("chi_error", ChiErrInputs)

\* the number of iterations of each `for i in 0..N`
ChiErrLoopCount == N

\* (input.a[i] <= B) || (Q - B <= input.a[i] && input.a[i] < Q)
ChiErrPreCheckOk(v) == (v <= B) \/ (Q - B <= v /\ v < Q)

\* for i in 0..N { assert!(...) }: input.a[i] panics when a has no index i
ChiErrPreCheck ==
    /\ gadget = "chi_error" /\ pc = "start"
    /\ pc' = IF \A i \in 0..(ChiErrLoopCount - 1) :
                    InBounds(input.a, i) /\ ChiErrPreCheckOk(At(input.a, i))
             THEN "checked" ELSE "panicked"
    /\ UNCHANGED <<gadget, input, ctx, make_public, public_at_call, locals>>

\* a_assigned
ChiErrAssign ==
    /\ gadget = "chi_error" /\ pc = "checked"
    /\ LET av == [k \in 1..Len(input.a) |-> FFromU64(input.a[k])]
       IN  /\ ctx' = ctx \o av
           /\ locals' = [a_assigned |-> LoadedCells(ctx, av)]
    /\ pc' = "assigned"
    /\ UNCHANGED <<gadget, input, make_public, public_at_call>>

InPartialRange1_StrictB(v) == IsLessThanSafe(v, B)

\* range.is_less_than_safe(ctx, a_assigned[i], B + 1)
InPartialRange1(v) == IsLessThanSafe(v, B + 1)

\* not(is_less_than_safe(a_assigned[i], Q - B))
InRangeLowerBound(v) == GateNot(IsLessThanSafe(v, Q - B))

\* range.is_less_than_safe(ctx, a_assigned[i], Q)
InRangeUpperBound(v) == IsLessThanSafe(v, Q)

\* and(in_range_lower_bound_vec[i], in_range_upper_bound_vec[i])
InPartialRange2(v) == GateAnd(InRangeLowerBound(v), InRangeUpperBound(v))

\* or(in_partial_range_1_vec[i], in_partial_range_2_vec[i])
InRange(v) == GateOr(InPartialRange1(v), InPartialRange2(v))

\* 1. in_partial_range_1_vec
ChiErrPartialRange1 ==
    /\ gadget = "chi_error" /\ pc = "assigned"
    /\ LET av == Values(ctx, locals.a_assigned)
           r1 == [i \in 1..ChiErrLoopCount |-> InPartialRange1(av[i])]
       IN  /\ ctx' = ctx \o r1
           /\ locals' = [a_assigned |-> locals.a_assigned,
                         in_partial_range_1_vec |-> LoadedCells(ctx, r1)]
    /\ pc' = "range1"
    /\ UNCHANGED <<gadget, input, make_public, public_at_call>>

\* 2. in_range_lower_bound_vec (a less-than cell and its negation per
\* coefficient), in_range_upper_bound_vec, in_partial_range_2_vec
ChiErrPartialRange2 ==
    /\ gadget = "chi_error" /\ pc = "range1"
    /\ LET av == Values(ctx, locals.a_assigned)
           n  == ChiErrLoopCount
           lo == [k \in 1..(2 * n) |->
                    IF k % 2 = 1 THEN IsLessThanSafe(av[(k + 1) \div 2], Q - B)
                    ELSE InRangeLowerBound(av[k \div 2])]
           up == [i \in 1..n |-> InRangeUpperBound(av[i])]
           c1 == ctx \o lo
           c2 == c1 \o up
           lov == [i \in 1..n |-> Len(ctx) + 2 * i]
           upv == LoadedCells(c1, up)
           r2 == [i \in 1..n |-> GateAnd(Value(c2, lov[i]), Value(c2, upv[i]))]
       IN  /\ ctx' = c2 \o r2
           /\ locals' = [a_assigned |-> locals.a_assigned,
                         in_partial_range_1_vec |-> locals.in_partial_range_1_vec,
                         in_partial_range_2_vec |-> LoadedCells(c2, r2)]
    /\ pc' = "range2"
    /\ UNCHANGED <<gadget, input, make_public, public_at_call>>

\* 3. in_range_vec  4. is_equal(in_range_vec[i], Constant(1))
ChiErrInRange ==
    /\ gadget = "chi_error" /\ pc = "range2"
    /\ LET n  == ChiErrLoopCount
           ir == [i \in 1..n |-> GateOr(Value(ctx, locals.in_partial_range_1_vec[i]),
                                        Value(ctx, locals.in_partial_range_2_vec[i]))]
           eq == [i \in 1..n |-> GateIsEqual(ir[i], 1)]
       IN  /\ ctx' = ctx \o ir \o eq
           /\ locals' = [a_assigned |-> locals.a_assigned,
                         in_range_vec |-> LoadedCells(ctx, ir)]
    /\ pc' = "done"
    /\ UNCHANGED <<gadget, input, make_public, public_at_call>>

NextChiErr ==
    ChiErrPreCheck \/ ChiErrAssign \/ ChiErrPartialRange1 \/ ChiErrPartialRange2
        \/ ChiErrInRange

SpecChiErr == InitChiErr /\ [][NextChiErr]_vars

(***************************************************************************)
(* check_poly_from_distribution (chi_key)                                  *)
(***************************************************************************)
ChiKeyInputs ==
    [a : OneFreeVectors(U64Vals, {0, 1, Q - 1}, N + 1) \cup MisshapenVectors(N + 1)]

InitChiKey == InitGadget("chi_key", ChiKeyInputs)

\* the number of iterations of each `for i in 0..N`
ChiKeyLoopCount == N

\* (input.a[i] == 0) || (input.a[i] == 1) || (input.a[i] == Q - 1)
ChiKeyPreCheckOk(v) == (v = 0) \/ (v = 1) \/ (v = Q - 1)

ChiKeyPreCheck ==
    /\ gadget = "chi_key" /\ pc = "start"
    /\ pc' = IF \A i \in 0..(ChiKeyLoopCount - 1) :
                    InBounds(input.a, i) /\ ChiKeyPreCheckOk(At(input.a, i))
             THEN "checked" ELSE "panicked"
    /\ UNCHANGED <<gadget, input, ctx, make_public, public_at_call, locals>>

ChiKeyAssign ==
    /\ gadget = "chi_key" /\ pc = "checked"
    /\ LET av == [k \in 1..Len(input.a) |-> FFromU64(input.a[k])]
       IN  /\ ctx' = ctx \o av
           /\ locals' = [a_assigned |-> LoadedCells(ctx, av)]
    /\ pc' = "assigned"
    /\ UNCHANGED <<gadget, input, make_public, public_at_call>>

ChiKeyFactors_WrongRoot(v) == <<FSub(v, FFromU64(0)), FSub(v, FFromU64(1)), FSub(v, FFromU64(Q))>>

\* factor_1, factor_2, factor_3
ChiKeyFactors(v) == <<FSub(v, FFromU64(0)), FSub(v, FFromU64(1)), FSub(v, FFromU64(Q - 1))>>

\* factor_1_2_3 = (factor_1 * factor_2) * factor_3
ChiKeyProduct(v) ==
    FMul(FMul(ChiKeyFactors(v)[1], ChiKeyFactors(v)[2]), ChiKeyFactors(v)[3])

\* the cells of one iteration: the three factors, factor_1_2, factor_1_2_3
\* and the boolean of is_zero
ChiKeyCells(v) ==
    ChiKeyFactors(v) \o <<FMul(ChiKeyFactors(v)[1], ChiKeyFactors(v)[2]),
                          ChiKeyProduct(v), GateIsZero(ChiKeyProduct(v))>>

\* for i in 0..N { ... gate.is_zero(ctx, factor_1_2_3) }
ChiKeyVanish ==
    /\ gadget = "chi_key" /\ pc = "assigned"
    /\ LET av == Values(ctx, locals.a_assigned)
           cells == [k \in 1..(6 * ChiKeyLoopCount) |->
                        ChiKeyCells(av[(k + 5) \div 6])[((k - 1) % 6) + 1]]
       IN  /\ ctx' = ctx \o cells
           /\ locals' = [a_assigned |-> locals.a_assigned,
                         factor_1_2_3 |-> [i \in 1..ChiKeyLoopCount |-> Len(ctx) + 6 * i - 1],
                         is_zero |-> [i \in 1..ChiKeyLoopCount |-> Len(ctx) + 6 * i]]
    /\ pc' = "done"
    /\ UNCHANGED <<gadget, input, make_public, public_at_call>>

NextChiKey == ChiKeyPreCheck \/ ChiKeyAssign \/ ChiKeyVanish

SpecChiKey == InitChiKey /\ [][NextChiKey]_vars

(***************************************************************************)
(* div_euclid                                                              *)
(***************************************************************************)
I8_MIN == 0 - 128

I8_MAX == 127

InI8(x) == I8_MIN <= x /\ x <= I8_MAX

\* two's complement wrap-around of an i8 result (release build)
WrapI8(x) == ((x + 128) % 256) - 128

Abs(x) == IF x < 0 THEN 0 - x ELSE x

\* a / b on i8: Rust truncates towards zero
TruncDiv(a, b) ==
    IF (a >= 0) = (b > 0) THEN Abs(a) \div Abs(b) ELSE 0 - (Abs(a) \div Abs(b))

\* g.is_empty() || g.iter().all(|&x| x == 0)
IsZeroPoly(g) == Len(g) = 0 \/ \A k \in 1..Len(g) : g[k] = 0

RECURSIVE TrimLeadingZeros(_)
\* while !v.is_empty() && v[0] == 0 { v.remove(0) }
TrimLeadingZeros(v) == IF Len(v) > 0 /\ v[1] = 0 THEN TrimLeadingZeros(Tail(v)) ELSE v

DivPanic == [status |-> "panic", overflowed |-> FALSE, quotient |-> <<>>, remainder |-> <<>>]

DivDiff_Adds(d, ratio, coeff) == d + WrapI8(ratio * coeff)

\* dividend[i] - leading_coefficient_ratio * coeff, before any wrap-around
DivDiff(d, ratio, coeff) == d - WrapI8(ratio * coeff)

RECURSIVE DivLoop(_, _, _, _)
\* while dividend.len() > divisor_degree { ... }.  `checked` is the build's
\* overflow-checks setting: an i8 overflow of * or - panics when it is on
\* and wraps when it is off; a division by zero and -128 / -1 always panic.
DivLoop(dividend, quotient, g, checked) ==
    IF Len(dividend) <= Len(g) - 1
    THEN [status |-> "ok", overflowed |-> FALSE,
          quotient |-> quotient, remainder |-> dividend]
    ELSE IF g[1] = 0 \/ (dividend[1] = I8_MIN /\ g[1] = 0 - 1) THEN DivPanic
    ELSE LET ratio == TruncDiv(dividend[1], g[1])
             ovf   == \E i \in 1..Len(g) :
                         ~InI8(ratio * g[i]) \/ ~InI8(DivDiff(dividend[i], ratio, g[i]))
             nd    == [i \in 1..Len(dividend) |->
                         IF i <= Len(g) THEN WrapI8(DivDiff(dividend[i], ratio, g[i]))
                         ELSE dividend[i]]
             rest  == DivLoop(Tail(nd), Append(quotient, ratio), g, checked)
         IN  IF ovf /\ checked THEN DivPanic
             ELSE [rest EXCEPT !.overflowed = @ \/ ovf]

\* fn div_euclid(f, g) -> (quotient, remainder)
DivEuclid(f, g, checked) ==
    IF IsZeroPoly(g) THEN DivPanic
    ELSE LET r == DivLoop(f, <<>>, g, checked)
         IN  [r EXCEPT !.quotient = TrimLeadingZeros(@),
                       !.remainder = TrimLeadingZeros(@)]

I8Vals == (0 - MaxCoeff)..MaxCoeff

\* all vectors over S of length lo..hi
VectorsUpTo(S, lo, hi) == UNION { Vectors(S, l) : l \in lo..hi }

\* divisor coefficients: a leading coefficient other than 0, 1, -1 included
DivisorVals == I8Vals \cup {2}

DivInputs ==
    [f : VectorsUpTo(I8Vals, 0, MaxDivLen)
            \cup OneFreeVectors({I8_MIN, I8_MAX}, I8Vals, MaxDivLen),
     g : VectorsUpTo(DivisorVals, 0, M + 1),
     overflow_checks : BOOLEAN]

InitDiv ==
    /\ gadget = "div_euclid"
    /\ pc = "start"
    /\ input \in DivInputs
    /\ ctx = <<>> /\ make_public = <<>> /\ public_at_call = <<>>
    /\ locals = <<>>

DivCall ==
    /\ gadget = "div_euclid" /\ pc = "start"
    /\ LET r == DivEuclid(input.f, input.g, input.overflow_checks)
       IN  /\ locals' = r
           /\ pc' = IF r.status = "ok" THEN "done" ELSE "panicked"
    /\ UNCHANGED <<gadget, input, ctx, make_public, public_at_call>>

NextDiv == DivCall

SpecDiv == InitDiv /\ [][NextDiv]_vars

(***************************************************************************)
(* poly_divide_by_cyclo                                                    *)
(***************************************************************************)
U32_MOD == Pow2(U32_BITS)

\* `x as u64` for x: i8 (sign extension)
I8AsU64(x) == x % U64_MOD

\* `x as u32` for x: i8 (sign extension)
I8AsU32(x) == x % U32_MOD

\* F::from(x as u64) for x: i8
I8ToField(x) == FFromU64(I8AsU64(x))

\* sum.value().get_lower_32()
GetLower32(x) == x % U32_MOD

CycloDenominators ==
    {<<1, 0, 1>>, <<2, 0, 1>>, <<0, 0, 0>>} \cup OneFreeVectors(I8Vals, {1}, M + 1)
        \cup MisshapenVectors(M + 1)

CycloNominators ==
    Vectors(I8Vals, CYCLO_N + 1) \cup OneFreeVectors({I8_MIN, I8_MAX}, {0}, CYCLO_N + 1)
        \cup MisshapenVectors(CYCLO_N + 1)

CycloInputs ==
    [nominator : CycloNominators, denominator : CycloDenominators, overflow_checks : {TRUE}]
    \cup [nominator : OneFreeVectors({I8_MIN, I8_MAX}, {0}, CYCLO_N + 1),
          denominator : CycloDenominators, overflow_checks : {FALSE}]

InitCyclo ==
    /\ gadget = "poly_divide_by_cyclo"
    /\ pc = "start"
    /\ input \in CycloInputs
    /\ ctx = <<>> /\ make_public = <<>> /\ public_at_call = <<>>
    /\ locals = <<>>

\* assert_eq!(input.nominator.len() - 1, N); assert_eq!(input.denominator.len() - 1, M);
CycloShapeOk(in) == LenMinus1(in.nominator) = CYCLO_N /\ LenMinus1(in.denominator) = M

CycloAssert ==
    /\ gadget = "poly_divide_by_cyclo" /\ pc = "start"
    /\ pc' = IF CycloShapeOk(input) THEN "checked" ELSE "panicked"
    /\ UNCHANGED <<gadget, input, ctx, make_public, public_at_call, locals>>

\* nom_assigned, denom_assigned and the two asserts on their lengths
CycloAssign ==
    /\ gadget = "poly_divide_by_cyclo" /\ pc = "checked"
    /\ LET nv == [k \in 1..Len(input.nominator) |-> I8ToField(input.nominator[k])]
           dv == [k \in 1..Len(input.denominator) |-> I8ToField(input.denominator[k])]
           c1 == ctx \o nv
       IN  /\ ctx' = c1 \o dv
           /\ locals' = [nom_assigned |-> LoadedCells(ctx, nv),
                         denom_assigned |-> LoadedCells(c1, dv)]
           /\ pc' = IF (Len(nv) - 1) % U64_MOD = CYCLO_N /\ (Len(dv) - 1) % U64_MOD = M
                    THEN "assigned" ELSE "panicked"
    /\ UNCHANGED <<gadget, input, make_public, public_at_call>>

\* the zeros pushed before the remainder: input.nominator.len() - rem.len()
RemPadding(nominator, rem) == [k \in 1..(Len(nominator) - Len(rem)) |-> 0]

\* let (quot, rem) = div_euclid(..); quot_assigned; rem_assigned
CycloDivide ==
    /\ gadget = "poly_divide_by_cyclo" /\ pc = "assigned"
    /\ \E r \in {DivEuclid(input.nominator, input.denominator, input.overflow_checks)} :
       LET qv == [k \in 1..Len(r.quotient) |-> I8ToField(r.quotient[k])]
           rv == RemPadding(input.nominator, r.remainder)
                    \o [k \in 1..Len(r.remainder) |-> I8ToField(r.remainder[k])]
           c1 == ctx \o qv
       IN  IF r.status = "panic"
           THEN pc' = "panicked" /\ UNCHANGED <<ctx, locals>>
           ELSE /\ ctx' = c1 \o rv
                /\ locals' = [nom_assigned |-> locals.nom_assigned,
                              denom_assigned |-> locals.denom_assigned,
                              quot |-> r.quotient, rem |-> r.remainder,
                              quot_assigned |-> LoadedCells(ctx, qv),
                              rem_assigned |-> LoadedCells(c1, rv)]
                /\ pc' = "divided"
    /\ UNCHANGED <<gadget, input, make_public, public_at_call>>

\* for i in 0..(rem_assigned.len() - 1) { make_public.push(rem_assigned[i]) }
CycloPublicCells(rem_assigned) == SubSeq(rem_assigned, 1, Len(rem_assigned) - 1)

CycloPublish ==
    /\ gadget = "poly_divide_by_cyclo" /\ pc = "divided"
    /\ make_public' = make_public \o CycloPublicCells(locals.rem_assigned)
    /\ pc' = "published"
    /\ UNCHANGED <<gadget, input, ctx, public_at_call, locals>>

\* whether every quot_assigned[a_idx] and denom_assigned[i - a_idx] the loop
\* reads exists
ConvInBounds(la, lb, n) ==
    \A i \in 0..(2 * n) : \A a_idx \in WindowLo(i, n)..WindowHi(i, n) :
        a_idx < la /\ i - a_idx < lb

CycloWindow_TakesN(lp, lr) == Min(Min(lp, lr), CYCLO_N)

\* the number of pairs prod_val.iter().zip(rem_assigned.iter()).take(2 * N - 1) yields
CycloWindow(lp, lr) == Min(Min(lp, lr), 2 * CYCLO_N - 1)

\* prod_val = quot_assigned * denom_assigned; assert_eq!(prod_val.len(),
\* rem_assigned.len()); sum_assigned.  An index out of bounds panics (the
\* cells allocated before it are lost with the context).
CycloConvolve ==
    /\ gadget = "poly_divide_by_cyclo" /\ pc = "published"
    /\ IF ~ConvInBounds(Len(locals.quot_assigned), Len(locals.denom_assigned), M)
       THEN pc' = "panicked" /\ UNCHANGED <<ctx, locals>>
       ELSE \E r \in {Convolve(ctx, Values(ctx, locals.quot_assigned),
                                Values(ctx, locals.denom_assigned), M, 2 * M + 1)} :
            LET pv == Values(r.ctx, r.prod_val)
                rv == Values(r.ctx, locals.rem_assigned)
                sv == [k \in 1..CycloWindow(Len(pv), Len(rv)) |-> FAdd(pv[k], rv[k])]
            IN  IF Len(r.prod_val) # Len(locals.rem_assigned)
                THEN pc' = "panicked" /\ UNCHANGED <<ctx, locals>>
                ELSE /\ ctx' = r.ctx \o sv
                     /\ locals' = [nom_assigned |-> locals.nom_assigned,
                                   denom_assigned |-> locals.denom_assigned,
                                   quot |-> locals.quot, rem |-> locals.rem,
                                   quot_assigned |-> locals.quot_assigned,
                                   rem_assigned |-> locals.rem_assigned,
                                   prod_val |-> r.prod_val,
                                   sum_assigned |-> LoadedCells(r.ctx, sv)]
                     /\ pc' = "computed"
    /\ UNCHANGED <<gadget, input, make_public, public_at_call>>

\* for (sum, out) in sum_assigned.iter().zip(out_expected) {
\*     assert_eq!(sum.value().get_lower_32(), out as u32) }
CycloCheck ==
    /\ gadget = "poly_divide_by_cyclo" /\ pc = "computed"
    /\ pc' = IF \A k \in 1..Min(Len(locals.sum_assigned), Len(input.nominator)) :
                    GetLower32(Value(ctx, locals.sum_assigned[k]))
                        = I8AsU32(input.nominator[k])
             THEN "done" ELSE "panicked"
    /\ UNCHANGED <<gadget, input, ctx, make_public, public_at_call, locals>>

NextCyclo == CycloAssert \/ CycloAssign \/ CycloDivide \/ CycloPublish \/ CycloConvolve \/ CycloCheck

SpecCyclo == InitCyclo /\ [][NextCyclo]_vars

(***************************************************************************)
(* Any gadget, called by the driver                                        *)
(***************************************************************************)
Init ==
    InitMul \/ InitAdd \/ InitScalar \/ InitReduce \/ InitChiErr \/ InitChiKey \/ InitCyclo

Next ==
    NextMul \/ NextAdd \/ NextScalar \/ NextReduce \/ NextChiErr \/ NextChiKey \/ NextCyclo

Spec == Init /\ [][Next]_vars

(***************************************************************************)
(* Properties                                                              *)
(***************************************************************************)
IsPrefix(s, t) == Len(s) <= Len(t) /\ SubSeq(t, 1, Len(s)) = s

\* [0, B] \cup [Q - B, Q - 1]
ChiErrMember(v) == (0 <= v /\ v <= B) \/ (Q - B <= v /\ v <= Q - 1)

\* some coefficient the pre-check loop reads is missing or fails the pre-check
ChiErrRejected == \E i \in 0..(ChiErrLoopCount - 1) :
                     ~InBounds(input.a, i) \/ ~ChiErrMember(At(input.a, i))

\* C1: range membership.  For every coefficient value v in [0, Q-1] the
\* out-of-circuit pre-check passes iff the in-circuit boolean in_range is 1
\* iff v is in [0, B] or [Q-B, Q-1]; B and Q-B are accepted, B+1 and Q-B-1
\* rejected; a run that reaches the end has in_range = 1 in every cell of
\* in_range_vec, and a run panics exactly when a coefficient it checks is
\* not a member.
C1_RangeMembership ==
    gadget = "chi_error" =>
        /\ \A k \in 1..Len(input.a) :
              LET v == input.a[k]
              IN  v <= Q - 1 =>
                    /\ ChiErrPreCheckOk(v) <=> ChiErrMember(v)
                    /\ InRange(FFromU64(v)) = 1 <=> ChiErrMember(v)
                    /\ InRange(FFromU64(v)) \in {0, 1}
        /\ ChiErrPreCheckOk(B) /\ InRange(B) = 1
        /\ ChiErrPreCheckOk(Q - B) /\ InRange(Q - B) = 1
        /\ ~ChiErrPreCheckOk(B + 1) /\ InRange(B + 1) = 0
        /\ ~ChiErrPreCheckOk(Q - B - 1) /\ InRange(Q - B - 1) = 0
        /\ pc = "done" =>
              \A i \in 0..(ChiErrLoopCount - 1) :
                  /\ Value(ctx, At(locals.in_range_vec, i)) = 1
                  /\ ChiErrMember(At(input.a, i))
        /\ pc # "start" => (pc = "panicked" <=> ChiErrRejected)

C1_Witness ==
    /\ gadget = "chi_error" /\ pc = "done"
    /\ At(input.a, 0) = Q - B
    /\ Value(ctx, At(locals.in_range_vec, 0)) = 1

ChiKeyMember(v) == v \in {0, 1, Q - 1}

ChiKeyRejected == \E i \in 0..(ChiKeyLoopCount - 1) :
                     ~InBounds(input.a, i) \/ ~ChiKeyMember(At(input.a, i))

\* field elements that no u64 input of the model reaches
FarFieldElements ==
    {FIELD_MODULUS - 1, FIELD_MODULUS - 2, FIELD_MODULUS - Q + 1, FIELD_MODULUS - Q,
     U64_MOD, (FIELD_MODULUS + 1) \div 2}

\* C2: discrete-set membership.  For every coefficient value v the pre-check
\* passes iff the product (v-0)(v-1)(v-(Q-1)) computed in the field is zero
\* iff v is one of 0, 1, Q-1; the product is zero exactly when one of the
\* three factors is zero; a run that reaches the end has a zero product for
\* every coefficient it checks, and a run panics exactly when a coefficient
\* it checks is not in the set.
C2_DiscreteSetMembership ==
    gadget = "chi_key" =>
        /\ \A k \in 1..Len(input.a) :
              LET v == input.a[k]
                  f == ChiKeyFactors(FFromU64(v))
              IN  /\ ChiKeyPreCheckOk(v) <=> ChiKeyMember(v)
                  /\ ChiKeyProduct(FFromU64(v)) = 0 <=> ChiKeyMember(v)
                  /\ ChiKeyProduct(FFromU64(v)) = 0 <=> (f[1] = 0 \/ f[2] = 0 \/ f[3] = 0)
        /\ \A v \in FarFieldElements :
              /\ ChiKeyProduct(v) # 0
              /\ \A j \in 1..3 : ChiKeyFactors(v)[j] # 0
        /\ pc = "done" =>
              \A i \in 0..(ChiKeyLoopCount - 1) :
                  /\ Value(ctx, At(locals.factor_1_2_3, i)) = 0
                  /\ Value(ctx, At(locals.is_zero, i)) = 1
                  /\ ChiKeyMember(At(input.a, i))
        /\ pc # "start" => (pc = "panicked" <=> ChiKeyRejected)

C2_Witness ==
    /\ gadget = "chi_key" /\ pc = "done"
    /\ At(input.a, 0) = Q - 1 /\ At(input.a, 1) = 1 /\ At(input.a, 2) = 1
    /\ Value(ctx, At(locals.factor_1_2_3, 0)) = 0

\* the i-th coefficient of a * b over the integers: the sum of a[j] * b[i-j]
\* for max(0, i-n) <= j <= min(i, n)
ConvCoefficient(a, b, i, n) ==
    LET lo == Max(0, i - n)
        hi == Min(i, n)
    IN  SumTo([k \in 1..(hi - lo + 1) |-> At(a, lo + k - 1) * At(b, i - (lo + k - 1))],
              hi - lo + 1)

\* C3: convolution correctness.  Once poly_mul has built prod_val, it has
\* 2N+1 entries and entry i holds the sum of a[j]*b[i-j] over
\* max(0,i-N) <= j <= min(i,N); the same loop on a=[1,2], b=[3,4] gives
\* [3,10,8].
C3_ConvolutionCorrect ==
    /\ LET r == Convolve(<<>>, <<1, 2>>, <<3, 4>>, 1, 3)
       IN  Values(r.ctx, r.prod_val) = <<3, 10, 8>>
    /\ (gadget = "poly_mul" /\ pc \in {"computed", "published", "done"}) =>
          /\ Len(locals.prod_val) = 2 * N + 1
          /\ \A i \in 0..(2 * N) :
                Value(ctx, At(locals.prod_val, i)) = ConvCoefficient(input.a, input.b, i, N)

C3_Witness ==
    /\ gadget = "poly_mul" /\ pc = "done"
    /\ Value(ctx, At(locals.prod_val, 2 * N)) = 255 * 255
    /\ Value(ctx, At(locals.prod_val, N)) > 255

\* the product of two integer polynomials (either endianness)
IntPolyMul(a, b) ==
    IF Len(a) = 0 \/ Len(b) = 0 THEN <<>>
    ELSE [k \in 1..(Len(a) + Len(b) - 1) |->
            SumTo([i \in 1..Len(a) |->
                     IF k + 1 - i >= 1 /\ k + 1 - i <= Len(b)
                     THEN a[i] * b[k + 1 - i] ELSE 0], Len(a))]

\* the sum of two integer polynomials, leading coefficient first
IntPolyAdd(a, b) ==
    LET n == Max(Len(a), Len(b))
    IN  [k \in 1..n |->
            (IF k > n - Len(a) THEN a[k - (n - Len(a))] ELSE 0)
          + (IF k > n - Len(b) THEN b[k - (n - Len(b))] ELSE 0)]

\* equality of integer polynomials, leading coefficient first
IntPolyEq(a, b) == TrimLeadingZeros(a) = TrimLeadingZeros(b)

\* degree of an integer polynomial, leading coefficient first (-1 for zero)
Degree(a) == Len(TrimLeadingZeros(a)) - 1

\* quotient * g + remainder = f and degree(remainder) < degree(g)
DivisionIdentity(f, g, res) ==
    /\ IntPolyEq(IntPolyAdd(IntPolyMul(res.quotient, g), res.remainder), f)
    /\ Degree(res.remainder) < Degree(g)

ReduceComputed ==
    /\ gadget = "reduce_poly"
    /\ pc \in {"computed", "published", "done"} \/ (pc = "panicked" /\ ReduceShapeOk(input))

\* C5: modular reduction.  For every input of N+1 coefficients the gadget
\* produces N+1 remainders, remainder i being poly[i] mod MODULUS and lying
\* in 0..MODULUS-1, and appends exactly these N+1 cells to make_public in
\* index order; 17 reduces to 6.
C5_ModularReduction ==
    /\ DivMod(U8ToField(17), MODULUS)[2] = 6
    /\ ReduceComputed =>
          /\ Len(locals.rem_assigned) = N + 1
          /\ Len(locals.rem_assigned) = Len(input.poly)
          /\ \A i \in 0..N :
                /\ Value(ctx, At(locals.rem_assigned, i)) = At(input.poly, i) % MODULUS
                /\ Value(ctx, At(locals.rem_assigned, i)) \in 0..(MODULUS - 1)
          /\ pc # "computed" => make_public = public_at_call \o locals.rem_assigned

C5_Witness ==
    /\ gadget = "reduce_poly" /\ pc = "done"
    /\ At(input.poly, N) = 17 /\ At(input.poly, 0) = 255
    /\ Len(make_public) = Len(public_at_call) + N + 1
    /\ Value(ctx, make_public[Len(make_public)]) = 6

\* C6 as claimed: poly_scalar_mul computes a[i]*k for every i in 0..=N and
\* flags exactly these N+1 products public in index order.
C6_ScalarMulAllCoefficients ==
    (gadget = "poly_scalar_mul" /\ pc \in {"published", "done"} /\ Len(input.a) = N + 1) =>
        /\ Len(locals.scalar_prod_assigned) = N + 1
        /\ \A i \in 0..N :
              /\ InBounds(locals.scalar_prod_assigned, i)
              /\ Value(ctx, At(locals.scalar_prod_assigned, i)) = At(input.a, i) * input.k
        /\ make_public = public_at_call \o locals.scalar_prod_assigned

\* poly_add has got past its shape assertions and the addition
AddComputed ==
    /\ gadget = "poly_add"
    /\ pc \in {"computed", "published", "done"} \/ (pc = "panicked" /\ AddShapeOk(input))

\* C7: addition.  For all a and b of N+1 coefficients sum_assigned has
\* exactly N+1 entries, entry i being a[i] + b[i], and exactly these N+1
\* cells are appended to make_public in index order.
C7_Addition ==
    AddComputed =>
        /\ Len(locals.sum_assigned) = N + 1
        /\ \A i \in 0..N :
              Value(ctx, At(locals.sum_assigned, i)) = At(input.a, i) + At(input.b, i)
        /\ pc # "computed" => make_public = public_at_call \o locals.sum_assigned
        /\ pc # "panicked"

C7_Witness ==
    /\ gadget = "poly_add" /\ pc = "done"
    /\ Value(ctx, At(locals.sum_assigned, N)) = 255 + 255
    /\ Len(make_public) = Len(public_at_call) + N + 1
    /\ make_public[Len(make_public)] = At(locals.sum_assigned, N)

\* the cells of a vector of AssignedValues
Cells(v) == { v[k] : k \in 1..Len(v) }

\* C8: public-output ordering.  No step of any gadget removes, overwrites or
\* reorders an entry of make_public: the accumulator before a step is a
\* prefix of the accumulator after it, and what the driver handed in stays
\* in front.  Once poly_mul has published, the accumulator is its content at
\* the call followed by prod_val[0], ..., prod_val[2N] in this order, and
\* none of the appended cells is a cell of a_assigned or b_assigned.
C8_PublicOutputOrdering ==
    [][/\ IsPrefix(make_public, make_public')
       /\ public_at_call' = public_at_call
       /\ IsPrefix(public_at_call', make_public')
       /\ (gadget' = "poly_mul" /\ pc' \in {"published", "done"}) =>
             /\ make_public' = public_at_call' \o locals'.prod_val
             /\ Len(locals'.prod_val) = 2 * N + 1
             /\ \A k \in (Len(public_at_call') + 1)..Len(make_public') :
                   make_public'[k] \notin Cells(locals'.a_assigned) \cup Cells(locals'.b_assigned)
      ]_vars

C8_Witness ==
    /\ gadget = "poly_mul" /\ pc = "done"
    /\ public_at_call = <<1>>
    /\ Len(make_public) = 2 * N + 2
    /\ Value(ctx, make_public[2]) = 1
    /\ Value(ctx, make_public[2 * N + 2]) = 255 * 255

\* every input vector has its declared length (declared degree + 1)
DeclaredShape ==
    CASE gadget \in {"poly_mul", "poly_add"} ->
            Len(input.a) = N + 1 /\ Len(input.b) = N + 1
      [] gadget \in {"poly_scalar_mul", "chi_error", "chi_key"} ->
            Len(input.a) = N + 1
      [] gadget = "reduce_poly" ->
            Len(input.poly) = N + 1 /\ Len(input.out) = N + 1
      [] gadget = "poly_divide_by_cyclo" ->
            Len(input.nominator) = CYCLO_N + 1 /\ Len(input.denominator) = M + 1
      [] OTHER -> TRUE

\* C9 as claimed: in every gadget, an input vector whose length differs from
\* its declared degree + 1 aborts construction: such a run never completes.
C9_ShapeErrorsAbort == ~DeclaredShape => pc # "done"

\* the cells poly_divide_by_cyclo has assigned from signed integers so far
CycloAssigned == gadget = "poly_divide_by_cyclo"
                    /\ pc \in {"assigned", "divided", "published", "computed", "done"}

\* C10 as claimed: every i8 coefficient x that poly_divide_by_cyclo assigns
\* (nominator, denominator, quotient, remainder) is tracked as x reduced
\* modulo the field modulus, a negative x as p - |x|.
C10_SignedAssignment ==
    CycloAssigned =>
        /\ \A k \in 1..Len(input.nominator) :
              Value(ctx, locals.nom_assigned[k]) = input.nominator[k] % FIELD_MODULUS
        /\ \A k \in 1..Len(input.denominator) :
              Value(ctx, locals.denom_assigned[k]) = input.denominator[k] % FIELD_MODULUS
        /\ pc # "assigned" =>
              /\ \A k \in 1..Len(locals.quot) :
                    Value(ctx, locals.quot_assigned[k]) = locals.quot[k] % FIELD_MODULUS
              /\ \A k \in 1..Len(locals.rem) :
                    Value(ctx, locals.rem_assigned[Len(locals.rem_assigned) - Len(locals.rem) + k])
                        = locals.rem[k] % FIELD_MODULUS

\* poly_divide_by_cyclo has run its publish loop
CycloPublished == gadget = "poly_divide_by_cyclo"
                    /\ pc \in {"published", "computed", "done"}

\* C11 as claimed: once poly_divide_by_cyclo has published, the zero-padded
\* remainder has N+1 cells and make_public holds every one of them, the last
\* one (the constant term) included, in index order.
C11_RemainderPublishedInFull ==
    CycloPublished =>
        /\ Len(locals.rem_assigned) = CYCLO_N + 1
        /\ make_public = public_at_call \o locals.rem_assigned

\* C12 as claimed: in both distribution checks, a run on N+1 coefficients
\* that reaches the end has applied the membership check (pre-check and
\* in-circuit boolean) to every coefficient a[0..N], so every one of them,
\* the one at index N included, is in the allowed set.
C12_EveryCoefficientChecked ==
    /\ (gadget = "chi_error" /\ Len(input.a) = N + 1 /\ pc = "done") =>
          /\ Len(locals.in_range_vec) = N + 1
          /\ \A i \in 0..N : ChiErrMember(At(input.a, i))
    /\ (gadget = "chi_key" /\ Len(input.a) = N + 1 /\ pc = "done") =>
          /\ Len(locals.is_zero) = N + 1
          /\ \A i \in 0..N : ChiKeyMember(At(input.a, i))

\* the remainder as integers, left-padded with zeros to the nominator's length
CycloPaddedRem == RemPadding(input.nominator, locals.rem) \o locals.rem

\* quotient * denominator + padded remainder = nominator at position i, over
\* the integers
CycloIdentityAt(i) ==
    ConvCoefficient(locals.quot, input.denominator, i, M) + At(CycloPaddedRem, i)
        = At(input.nominator, i)

\* C13: identity check of poly_divide_by_cyclo.  The check runs over all N+1
\* positions, and it lets construction complete exactly when, at every
\* position, the convolution of the quotient with the denominator plus the
\* zero-padded remainder equals the nominator coefficient; a run that
\* completes has quotient * denominator + remainder = nominator as
\* polynomials, whatever the oracle returned.
C13_IdentityCheck ==
    [][(gadget = "poly_divide_by_cyclo" /\ pc = "computed") =>
          /\ Len(locals.sum_assigned) = CYCLO_N + 1
          /\ pc' = "done" <=> \A i \in 0..CYCLO_N : CycloIdentityAt(i)
          /\ pc' = "done" =>
                IntPolyEq(IntPolyAdd(IntPolyMul(locals.quot, input.denominator), locals.rem),
                          input.nominator)]_vars

\* an oracle result that violates the identity (127 x^4 divided by 2 x^2 + 1
\* with truncating division) is rejected by the check
C13_Witness ==
    /\ gadget = "poly_divide_by_cyclo"
    /\ input.nominator = <<127, 0, 0, 0, 0>> /\ input.denominator = <<2, 0, 1>>
    /\ pc = "panicked"
    /\ locals.quot = <<63, 0, 0 - 31>>
    /\ Len(locals.sum_assigned) = CYCLO_N + 1

\* C14 as claimed: reduce_poly completes only if the claimed output agrees
\* with the true remainder at every coefficient index 0..N, the last one
\* included: input.out[i] = input.poly[i] mod MODULUS.
C14_ClaimedOutputChecked ==
    (gadget = "reduce_poly" /\ pc = "done") =>
        \A i \in 0..N :
            /\ InBounds(input.out, i)
            /\ At(input.out, i) = At(input.poly, i) % MODULUS

\* C15 as claimed: for a nominator of N+1 and a non-zero denominator of M+1
\* coefficients, once div_euclid has returned, quot_assigned and
\* denom_assigned have every entry the convolution loop reads, and the loop
\* does not panic on an index.
C15_ConvolutionInBounds ==
    (/\ gadget = "poly_divide_by_cyclo"
     /\ CycloShapeOk(input) /\ ~IsZeroPoly(input.denominator)
     /\ pc = "published") =>
        /\ Len(locals.quot_assigned) = M + 1
        /\ ConvInBounds(Len(locals.quot_assigned), Len(locals.denom_assigned), M)

====
